---- MODULE Spec2Model ----
(***************************************************************************)
(* A model of lib/stats.py: the statistical comparison engine behind the   *)
(* commands calculate_statistics, check_normality and hypothesis_test, and *)
(* of its library functions as tests/unit/test_stats.py calls them.        *)
(*                                                                         *)
(* Numbers.  A Python float is modelled as a fixed-point number: an        *)
(* integer count of 1/Scale units, every operation rounding to the nearest *)
(* unit.  Where the outcome of an operation is visible in the output's     *)
(* type (int 0 against float 0.0) the number carries its Python type.      *)
(* Samples are sequences of whole numbers.                                 *)
(***************************************************************************)
EXTENDS Integers, Sequences, FiniteSets, TLC

VARIABLES
    cmd,     \* sys.argv[1] of a run of stats.py ("none": no run)
    stdin,   \* the text on standard input, split on "---": a sequence of token lists
    out,     \* the line printed, as a sequence of fields (<<>>: nothing yet)
    exit,    \* the exit status of the process
    call,    \* the library function a direct caller invokes ("none": no call)
    args,    \* its arguments
    ret,     \* what the call handed back to the caller
    pc       \* "start" before the command or call has run, "done" after

vars == <<cmd, stdin, out, exit, call, args, ret, pc>>

(***************************************************************************)
(* Bounds of the model (inputs only).                                      *)
(***************************************************************************)
MaxVal == 2          \* values of the samples given to the library functions: 0..MaxVal
MaxStdinVal == 1     \* values of the short samples on standard input: 0..MaxStdinVal
MaxShort == 3        \* short samples: every sequence of length 0..MaxShort
LongExtra == 0       \* long samples have length MinNormalN..MinNormalN+LongExtra
MaxTail == 3         \* a long sample has 0..MaxTail highest and lowest values
PctLen == 26         \* length of the long samples given to calculate_statistics
MaxStat == 3600      \* t and z statistics range over -MaxStat..MaxStat (1/Scale)
MaxMean == 1         \* means given to calculate_cohens_d: -MaxMean..MaxMean
MaxVar == 2          \* variances given to calculate_cohens_d: 0..MaxVar
MaxN == 3            \* sample sizes given to calculate_cohens_d: 0..MaxN

(***************************************************************************)
(* Program constants.                                                      *)
(***************************************************************************)
MinNormalN == 20     \* check_normality: n < 20 is insufficient_data
MinWelchN == 2       \* welchs_t_test: n < 2 is insufficient_data
MinMannWhitneyN == 3 \* mann_whitney_u_test: n < 3 is insufficient_data
DfFallback == 30     \* welchs_t_test: df when the denominator is not positive
DfZeroVariance == 999 \* welchs_t_test: the extra component of a zero_variance return

(***************************************************************************)
(* Fixed-point arithmetic.                                                 *)
(***************************************************************************)
Scale == 10^3

Abs(x) == IF x < 0 THEN -x ELSE x

\* a / b rounded to the nearest integer (b # 0)
RDiv(a, b) ==
    LET n == IF b < 0 THEN -a ELSE a
        d == Abs(b)
    IN  (2 * n + d) \div (2 * d)

RECURSIVE ISqrtBetween(_, _, _)
ISqrtBetween(k, lo, hi) ==
    IF lo >= hi THEN lo
    ELSE LET mid == (lo + hi + 1) \div 2
         IN  IF mid * mid <= k THEN ISqrtBetween(k, mid, hi)
             ELSE ISqrtBetween(k, lo, mid - 1)

\* the integer nearest to the square root of k >= 0
ISqrt(k) ==
    LET r == ISqrtBetween(k, 0, 46340)
    IN  IF k - r * r > r THEN r + 1 ELSE r

\* math.sqrt of a fixed-point number x >= 0
FSqrt(x) == ISqrt(x * Scale)

\* the fixed-point number of a whole number
Fix(k) == k * Scale

RECURSIVE SumSeq(_)
SumSeq(s) == IF s = <<>> THEN 0 ELSE Head(s) + SumSeq(Tail(s))

\* min(u1, u2) mistaken for max(u1, u2)
Max2(a, b) == IF a >= b THEN a ELSE b

Min2(a, b) == IF a <= b THEN a ELSE b

(***************************************************************************)
(* Python's sorted() on a list of numbers (insertion into a sorted list).  *)
(***************************************************************************)
RECURSIVE InsertSorted(_, _)
InsertSorted(x, s) ==
    IF s = <<>> THEN <<x>>
    ELSE IF x <= Head(s) THEN <<x>> \o s
    ELSE <<Head(s)>> \o InsertSorted(x, Tail(s))

RECURSIVE sorted(_)
sorted(s) == IF s = <<>> THEN <<>> ELSE InsertSorted(Head(s), sorted(Tail(s)))

\* Python's tuple order on (value, group) pairs
PairLE(p, q) == p[1] < q[1] \/ (p[1] = q[1] /\ p[2] <= q[2])

RECURSIVE InsertPair(_, _)
InsertPair(x, s) ==
    IF s = <<>> THEN <<x>>
    ELSE IF PairLE(x, Head(s)) THEN <<x>> \o s
    ELSE <<Head(s)>> \o InsertPair(x, Tail(s))

RECURSIVE sortedPairs(_)
sortedPairs(s) == IF s = <<>> THEN <<>> ELSE InsertPair(Head(s), sortedPairs(Tail(s)))

(***************************************************************************)
(* The statistics module's mean, median, variance and stdev.               *)
(***************************************************************************)
\* statistics.mean(values), n >= 1
Mean(values) == RDiv(Fix(SumSeq(values)), Len(values))

\* statistics.median(values), n >= 1
Median(values) ==
    LET s == sorted(values)
        n == Len(s)
    IN  IF n % 2 = 1 THEN Fix(s[(n + 1) \div 2])
        ELSE RDiv(Fix(s[n \div 2] + s[n \div 2 + 1]), 2)

\* statistics.variance(values), n >= 2: sum((x - mean)^2) / (n - 1), which
\* is (n * sum(x^2) - sum(x)^2) / (n * (n - 1))
Variance(values) ==
    LET n == Len(values)
        sq == [i \in 1..n |-> values[i] * values[i]]
        k == n * SumSeq(sq) - SumSeq(values) * SumSeq(values)
    IN  RDiv(Fix(k), n * (n - 1))

\* statistics.stdev(values), n >= 2
Stdev(values) == FSqrt(Variance(values))

FMul(a, b) == RDiv(a * b, Scale)

FDiv(a, b) == RDiv(a * Scale, b)

(***************************************************************************)
(* Python numbers whose type shows in the output: int or float.            *)
(***************************************************************************)
PyInt(k) == [ty |-> "int", v |-> Fix(k)]

PyFloat(x) == [ty |-> "float", v |-> x]

(***************************************************************************)
(* calculate_stats(values): the list of ten statistics.                    *)
(***************************************************************************)
\* int(q * n): the index taken over n instead of n - 1
PercentileIndex_overN(pct, n) == (pct * n) \div 100

\* int(q * (n - 1)) for q = pct / 100: the zero-based index of a percentile
PercentileIndex(pct, n) == (pct * (n - 1)) \div 100

\* sorted_vals[int(q * (n - 1))]
Percentile(sorted_vals, pct) ==
    Fix(sorted_vals[PercentileIndex(pct, Len(sorted_vals)) + 1])

\* min(values) and max(values), n >= 1
MinOf(values) == CHOOSE x \in {values[i] : i \in 1..Len(values)} :
                    \A i \in 1..Len(values) : x <= values[i]

MaxOf(values) == CHOOSE x \in {values[i] : i \in 1..Len(values)} :
                    \A i \in 1..Len(values) : x >= values[i]

calculate_stats(values) ==
    IF values = <<>> THEN [i \in 1..10 |-> PyInt(0)]
    ELSE
      LET n == Len(values)
          mean == Mean(values)
          median == Median(values)
          stdev == IF n > 1 THEN PyFloat(Stdev(values)) ELSE PyInt(0)
          min_val == Fix(MinOf(values))
          max_val == Fix(MaxOf(values))
          sorted_vals == sorted(values)
          p90 == Percentile(sorted_vals, 90)
          p95 == Percentile(sorted_vals, 95)
          p99 == Percentile(sorted_vals, 99)
          confidence_margin == FMul(1960, FDiv(stdev.v, FSqrt(Fix(n))))
          ci_lower == mean - confidence_margin
          ci_upper == mean + confidence_margin
      IN  <<PyFloat(mean), PyFloat(median), stdev, PyFloat(min_val),
            PyFloat(max_val), PyFloat(p90), PyFloat(p95), PyFloat(p99),
            PyFloat(ci_lower), PyFloat(ci_upper)>>

(***************************************************************************)
(* check_normality(values): <<status, skewness, kurtosis>>.                *)
(***************************************************************************)
check_normality(values) ==
    LET n == Len(values)
    IN  IF n < MinNormalN THEN <<"insufficient_data", 0, 0>>
        ELSE
          LET mean == Mean(values)
              stdev == Stdev(values)
          IN  IF stdev = 0 THEN <<"zero_variance", 0, 0>>
              ELSE
                LET z_scores == [i \in 1..n |-> FDiv(Fix(values[i]) - mean, stdev)]
                    cubes == [i \in 1..n |-> FMul(FMul(z_scores[i], z_scores[i]), z_scores[i])]
                    fourths == [i \in 1..n |->
                                  FMul(FMul(z_scores[i], z_scores[i]),
                                       FMul(z_scores[i], z_scores[i]))]
                    skewness == RDiv(SumSeq(cubes), n)
                    kurtosis == RDiv(SumSeq(fourths), n) - Fix(3)
                    is_normal == Abs(skewness) <= Fix(1) /\ Abs(kurtosis) <= Fix(2)
                    status == IF is_normal THEN "approximately_normal" ELSE "non_normal"
                IN  <<status, skewness, kurtosis>>

(***************************************************************************)
(* welchs_t_test(v1, v2): the tuple returned.                              *)
(***************************************************************************)
\* s_sq / n, in units of 1/(100 * Scale)
PerN(s_sq, n) == RDiv(s_sq * 100, n)

\* (s1_sq/n1 + s2_sq/n2)**2 / ((s1_sq/n1)**2/(n1-1) + (s2_sq/n2)**2/(n2-1)),
\* or 30 when the denominator is not positive; a1 and a2 are the two terms
\* s_sq/n, taken as shares of their sum to keep the squares in range
WelchDf(a1, a2, n1, n2) ==
    LET w1 == RDiv(a1 * Scale, a1 + a2)
        w2 == RDiv(a2 * Scale, a1 + a2)
        den == RDiv(w1 * w1, n1 - 1) + RDiv(w2 * w2, n2 - 1)
    IN  IF den > 0 THEN RDiv(Scale * Scale * Scale, den) ELSE Fix(DfFallback)

welchs_t_test(v1, v2) ==
    LET n1 == Len(v1)
        n2 == Len(v2)
    IN  IF n1 < MinWelchN \/ n2 < MinWelchN THEN <<0, 0, 0, "insufficient_data">>
        ELSE
          LET m1 == Mean(v1)
              m2 == Mean(v2)
              s1_sq == Variance(v1)
              s2_sq == Variance(v2)
              a1 == PerN(s1_sq, n1)
              a2 == PerN(s2_sq, n2)
              se == ISqrt((a1 + a2) * 10)
          IN  IF se = 0 THEN <<0, 0, DfZeroVariance, "zero_variance">>
              ELSE <<FDiv(m1 - m2, se), WelchDf(a1, a2, n1, n2), "success">>

(***************************************************************************)
(* mann_whitney_u_test(v1, v2).  The first ranking pass of the function    *)
(* (lines 86-106) assigns nothing that is read afterwards; the second pass *)
(* is the one modelled.                                                    *)
(***************************************************************************)
\* sorted([(v, 1) for v in v1] + [(v, 2) for v in v2])
Combined(v1, v2) ==
    sortedPairs([i \in 1..Len(v1) |-> <<v1[i], 1>>] \o [i \in 1..Len(v2) |-> <<v2[i], 2>>])

\* the inner while loop: the first zero-based index j >= i past the run of
\* values equal to combined[i]
RECURSIVE TieEnd(_, _, _)
TieEnd(combined, i, j) ==
    IF j < Len(combined) /\ combined[j + 1][1] = combined[i + 1][1]
    THEN TieEnd(combined, i, j + 1)
    ELSE j

\* (i + j) / 2.0: the rank of a tie group taken zero-based
AvgRank_zeroBased(i, j) == RDiv(Fix(i + j), 2)

\* avg_rank = (i + 1 + j) / 2.0
AvgRank(i, j) == RDiv(Fix(i + 1 + j), 2)

\* the outer while loop from zero-based index i on: the sum of the ranks of
\* the elements of group 1
RECURSIVE RankSum1(_, _)
RankSum1(combined, i) ==
    IF i >= Len(combined) THEN 0
    ELSE
      LET j == TieEnd(combined, i, i)
          inGroup1 == Cardinality({k \in i..(j - 1) : combined[k + 1][2] = 1})
      IN  inGroup1 * AvgRank(i, j) + RankSum1(combined, j)

\* u1 = r1_sum - (n1 * (n1 + 1)) / 2
U1(v1, v2) ==
    LET n1 == Len(v1)
    IN  RankSum1(Combined(v1, v2), 0) - RDiv(Fix(n1 * (n1 + 1)), 2)

\* u2 = (n1 * n2) - u1
U2(v1, v2) == Fix(Len(v1) * Len(v2)) - U1(v1, v2)

\* sigma_u = math.sqrt((n1 * n2 * (n1 + n2 + 1)) / 12)
SigmaU(n1, n2) == FSqrt(RDiv(Fix(n1 * n2 * (n1 + n2 + 1)), 12))

\* sigma_u corrected for ties, which is 0 when every value is the same
mann_whitney_tie_corrected(v1, v2) ==
    LET n1 == Len(v1)
        n2 == Len(v2)
    IN  IF n1 < MinMannWhitneyN \/ n2 < MinMannWhitneyN
        THEN <<0, 0, "insufficient_data">>
        ELSE
          LET u_stat == Min2(U1(v1, v2), U2(v1, v2))
              mu_u == RDiv(Fix(n1 * n2), 2)
              all == v1 \o v2
              sigma_u == IF \A i \in 1..Len(all) : all[i] = all[1] THEN 0
                         ELSE SigmaU(n1, n2)
          IN  IF sigma_u = 0 THEN <<u_stat, 0, "zero_variance">>
              ELSE <<u_stat, FDiv(u_stat - mu_u, sigma_u), "success">>

mann_whitney_u_test(v1, v2) ==
    LET n1 == Len(v1)
        n2 == Len(v2)
    IN  IF n1 < MinMannWhitneyN \/ n2 < MinMannWhitneyN
        THEN <<0, 0, "insufficient_data">>
        ELSE
          LET u_stat == Min2(U1(v1, v2), U2(v1, v2))
              mu_u == RDiv(Fix(n1 * n2), 2)
              sigma_u == SigmaU(n1, n2)
          IN  IF sigma_u = 0 THEN <<u_stat, 0, "zero_variance">>
              ELSE <<u_stat, FDiv(u_stat - mu_u, sigma_u), "success">>

(***************************************************************************)
(* Effect sizes.  A function that can raise returns                        *)
(* [raised |-> the exception or "none", val |-> the value returned].       *)
(***************************************************************************)
Returns(x) == [raised |-> "none", val |-> x]

Raises(e) == [raised |-> e, val |-> 0]

\* (m2 - m1) / pooled_sd: the means taken in the other order
calculate_cohens_d_swapped(m1, m2, s1_sq, s2_sq, n1, n2) ==
    IF n1 + n2 - 2 = 0 THEN Raises("division by zero")
    ELSE
      LET pooled_var == RDiv((n1 - 1) * s1_sq + (n2 - 1) * s2_sq, n1 + n2 - 2)
      IN  IF pooled_var < 0 THEN Raises("math domain error")
          ELSE
            LET pooled_sd == FSqrt(pooled_var)
            IN  Returns(IF pooled_sd > 0 THEN FDiv(m2 - m1, pooled_sd) ELSE 0)

calculate_cohens_d(m1, m2, s1_sq, s2_sq, n1, n2) ==
    IF n1 + n2 - 2 = 0 THEN Raises("division by zero")
    ELSE
      LET pooled_var == RDiv((n1 - 1) * s1_sq + (n2 - 1) * s2_sq, n1 + n2 - 2)
      IN  IF pooled_var < 0 THEN Raises("math domain error")
          ELSE
            LET pooled_sd == FSqrt(pooled_var)
            IN  Returns(IF pooled_sd > 0 THEN FDiv(m1 - m2, pooled_sd) ELSE 0)

calculate_rank_biserial(u_stat, n1, n2) ==
    IF n1 * n2 = 0 THEN Raises("division by zero")
    ELSE Returns(Fix(1) - RDiv(2 * u_stat, n1 * n2))

interpret_effect_size(effect) ==
    LET abs_e == Abs(effect)
    IN  IF abs_e < 200 THEN "negligible"
        ELSE IF abs_e < 500 THEN "small"
        ELSE IF abs_e < 800 THEN "medium"
        ELSE "large"

(***************************************************************************)
(* p-value approximations; t, df, z and the p-value in units of 1/Scale.   *)
(***************************************************************************)
\* df >= 30 in place of df > 30
t_to_pvalue_inclusive(t, df) ==
    LET abs_t == Abs(t)
    IN  IF df >= Fix(30)
        THEN IF abs_t > 3500 THEN 1
             ELSE IF abs_t > 2576 THEN 10
             ELSE IF abs_t > 1960 THEN 50
             ELSE IF abs_t > 1645 THEN 100
             ELSE 200
        ELSE IF abs_t > 3000 THEN 10
             ELSE IF abs_t > 2000 THEN 50
             ELSE 200

t_to_pvalue(t, df) ==
    LET abs_t == Abs(t)
    IN  IF df > Fix(30)
        THEN IF abs_t > 3500 THEN 1
             ELSE IF abs_t > 2576 THEN 10
             ELSE IF abs_t > 1960 THEN 50
             ELSE IF abs_t > 1645 THEN 100
             ELSE 200
        ELSE IF abs_t > 3000 THEN 10
             ELSE IF abs_t > 2000 THEN 50
             ELSE 200

z_to_pvalue(z) ==
    LET abs_z == Abs(z)
    IN  IF abs_z > 3291 THEN 1
        ELSE IF abs_z > 2576 THEN 10
        ELSE IF abs_z > 1960 THEN 50
        ELSE IF abs_z > 1645 THEN 100
        ELSE IF abs_z > 1280 THEN 200
        ELSE 500

(***************************************************************************)
(* Output formatting.  A printed number is the text of its value with a    *)
(* fixed number of decimal places: f"{x:.6f}" prints six whatever the type *)
(* of x, str(x) of an int prints none.                                     *)
(***************************************************************************)
Fixed(x, places) == [places |-> places, v |-> x]

\* f"{x:.6f}" if isinstance(x, float) else str(x)
FormatStat(x) == IF x.ty = "float" THEN Fixed(x.v, 6) ELSE Fixed(x.v, 0)

(***************************************************************************)
(* main(): the three commands.  Each returns the line it prints, or raises.*)
(***************************************************************************)
\* data = [float(x) for x in sys.stdin.read().split()]
calculate_statistics(data) ==
    LET results == calculate_stats(data)
        v == IF Len(data) > 1 THEN PyFloat(Variance(data)) ELSE PyInt(0)
        all == Append(results, v)
    IN  Returns([i \in 1..Len(all) |-> FormatStat(all[i])])

check_normality_cmd(data) ==
    LET r == check_normality(data)
    IN  Returns(<<r[1], Fixed(r[2], 4), Fixed(r[3], 4)>>)

hypothesis_test(raw_input) ==
    IF Len(raw_input) < 2 THEN Raises("list index out of range")
    ELSE
      LET v1 == raw_input[1]
          v2 == raw_input[2]
          n1 == Len(v1)
          n2 == Len(v2)
          s1_status == check_normality(v1)[1]
          s2_status == check_normality(v2)[1]
      IN  IF s1_status = "approximately_normal" /\ s2_status = "approximately_normal"
          THEN
            LET r == welchs_t_test(v1, v2)
            IN  IF Len(r) # 3 THEN Raises("too many values to unpack (expected 3)")
                ELSE
                  LET t == r[1]
                      df == r[2]
                      status == r[3]
                      p == t_to_pvalue(t, df)
                      effect == calculate_cohens_d(Mean(v1), Mean(v2),
                                    Variance(v1), Variance(v2), n1, n2)
                  IN  IF effect.raised # "none" THEN effect
                      ELSE Returns(<<"welch", Fixed(t, 6), Fixed(df, 6), Fixed(p, 6),
                                     status, Fixed(effect.val, 6), s1_status, s2_status>>)
          ELSE
            LET r == mann_whitney_u_test(v1, v2)
                u == r[1]
                z == r[2]
                status == r[3]
                p == z_to_pvalue(z)
                effect == calculate_rank_biserial(u, n1, n2)
            IN  IF effect.raised # "none" THEN effect
                ELSE Returns(<<"mann_whitney", Fixed(u, 6), Fixed(z, 6), Fixed(p, 6),
                               status, Fixed(effect.val, 6), s1_status, s2_status>>)

\* try: ... except Exception as e: print(f"ERROR|{str(e)}"); sys.exit(1)
Printed(r) == IF r.raised = "none" THEN r.val ELSE <<"ERROR", r.raised>>

ExitStatus(r) == IF r.raised = "none" THEN 0 ELSE 1

(***************************************************************************)
(* Inputs.                                                                 *)
(***************************************************************************)
\* every sequence of length 0..MaxShort over 0..MaxVal
ShortSamples == UNION {[1..n -> 0..MaxVal] : n \in 0..MaxShort}

\* every sequence of length 0..MaxShort over 0..MaxStdinVal
StdinShort == UNION {[1..n -> 0..MaxStdinVal] : n \in 0..MaxShort}

\* len values: a times 2, then 1s, then b times 0
LongSample(len, a, b) ==
    [i \in 1..len |-> IF i <= a THEN 2 ELSE IF i <= len - b THEN 1 ELSE 0]

LongSamples ==
    {LongSample(len, a, b) : len \in MinNormalN..(MinNormalN + LongExtra),
                             a \in 0..MaxTail, b \in 0..MaxTail}

PctSamples == {LongSample(PctLen, a, b) : a \in 0..MaxTail, b \in 0..MaxTail}

Samples == StdinShort \cup LongSamples

(***************************************************************************)
(* A run of stats.py.                                                      *)
(***************************************************************************)
NoCall == call = "none" /\ args = <<>> /\ ret = <<>>

Init ==
    /\ pc = "start"
    /\ out = <<>>
    /\ exit = 0
    /\ NoCall
    /\ \/ cmd = "absent" /\ stdin = <<<<>>>>
       \/ cmd = "calculate_statistics"
          /\ stdin \in {<<s>> : s \in StdinShort \cup PctSamples}
       \/ cmd = "check_normality" /\ stdin \in {<<s>> : s \in Samples}
       \/ cmd = "hypothesis_test"
          /\ stdin \in {<<s>> : s \in StdinShort} \cup (Samples \X Samples)

Finish(r) ==
    /\ out' = Printed(r)
    /\ exit' = ExitStatus(r)
    /\ pc' = "done"
    /\ UNCHANGED <<cmd, stdin, call, args, ret>>

\* len(sys.argv) < 2
Usage ==
    /\ pc = "start" /\ cmd = "absent"
    /\ out' = <<"Usage: stats.py <command> <args...>">>
    /\ exit' = 1
    /\ pc' = "done"
    /\ UNCHANGED <<cmd, stdin, call, args, ret>>

CalculateStatistics ==
    /\ pc = "start" /\ cmd = "calculate_statistics"
    /\ Finish(calculate_statistics(stdin[1]))

CheckNormality ==
    /\ pc = "start" /\ cmd = "check_normality"
    /\ Finish(check_normality_cmd(stdin[1]))

HypothesisTest ==
    /\ pc = "start" /\ cmd = "hypothesis_test"
    /\ Finish(hypothesis_test(stdin))

Next == Usage \/ CalculateStatistics \/ CheckNormality \/ HypothesisTest

Spec == Init /\ [][Next]_vars

(***************************************************************************)
(* Direct calls of the library functions, as tests/unit/test_stats.py      *)
(* makes them.  pc: "start", then for mann_whitney_u_test "tested" (the    *)
(* test has returned), "sized" (its rank-biserial effect size is known)    *)
(* and "done" (the effect size is interpreted); for welchs_t_test "done"   *)
(* (returned) and "unpacked" (the caller has taken the three values);      *)
(* "raised" when a call or an unpacking raised.                            *)
(***************************************************************************)
NoRun == cmd = "none" /\ stdin = <<>> /\ out = <<>> /\ exit = 0

Stats == (-MaxStat)..MaxStat

DfValues == {Fix(5), Fix(30), Fix(30) + 1, Fix(40)}

Means == {Fix(k) : k \in (-MaxMean)..MaxMean}

Variances == {Fix(k) : k \in 0..MaxVar}

InitLib ==
    /\ pc = "start"
    /\ ret = <<>>
    /\ NoRun
    /\ \/ call = "welchs_t_test" /\ args \in ShortSamples \X ShortSamples
       \/ call = "mann_whitney_u_test" /\ args \in ShortSamples \X ShortSamples
       \/ call = "calculate_cohens_d"
          /\ args \in Means \X Means \X Variances \X Variances \X (0..MaxN) \X (0..MaxN)
       \/ call = "t_to_pvalue" /\ args \in Stats \X DfValues
       \/ call = "z_to_pvalue" /\ args \in {<<z>> : z \in Stats}

Step(to, value) ==
    /\ ret' = value
    /\ pc' = to
    /\ UNCHANGED <<cmd, stdin, out, exit, call, args>>

CallWelch ==
    /\ pc = "start" /\ call = "welchs_t_test"
    /\ Step("done", welchs_t_test(args[1], args[2]))

\* t, df, status = stats.welchs_t_test(...)
UnpackWelch ==
    /\ pc = "done" /\ call = "welchs_t_test"
    /\ Step(IF Len(ret) = 3 THEN "unpacked" ELSE "raised", ret)

CallMannWhitney ==
    /\ pc = "start" /\ call = "mann_whitney_u_test"
    /\ Step("tested", mann_whitney_u_test(args[1], args[2]))

\* effect = calculate_rank_biserial(u, n1, n2)
CallRankBiserial ==
    /\ pc = "tested" /\ call = "mann_whitney_u_test"
    /\ LET effect == calculate_rank_biserial(ret[1], Len(args[1]), Len(args[2]))
       IN  IF effect.raised # "none" THEN Step("raised", ret)
           ELSE Step("sized", Append(ret, effect.val))

CallInterpret ==
    /\ pc = "sized" /\ call = "mann_whitney_u_test"
    /\ Step("done", Append(ret, interpret_effect_size(ret[4])))

CallCohensD ==
    /\ pc = "start" /\ call = "calculate_cohens_d"
    /\ LET d == calculate_cohens_d(args[1], args[2], args[3], args[4], args[5], args[6])
       IN  IF d.raised # "none" THEN Step("raised", <<d.raised>>)
           ELSE Step("done", <<d.val>>)

CallTToPvalue ==
    /\ pc = "start" /\ call = "t_to_pvalue"
    /\ Step("done", <<t_to_pvalue(args[1], args[2])>>)

CallZToPvalue ==
    /\ pc = "start" /\ call = "z_to_pvalue"
    /\ Step("done", <<z_to_pvalue(args[1])>>)

NextLib ==
    \/ CallWelch \/ UnpackWelch
    \/ CallMannWhitney \/ CallRankBiserial \/ CallInterpret
    \/ CallCohensD \/ CallTToPvalue \/ CallZToPvalue

SpecLib == InitLib /\ [][NextLib]_vars

(***************************************************************************)
(* Properties of the hypothesis_test command.                              *)
(***************************************************************************)
\* a finished hypothesis_test run whose input held the "---" separator
HypDone == cmd = "hypothesis_test" /\ pc = "done" /\ Len(stdin) = 2

ResultLine == Len(out) = 8 /\ out[1] \in {"welch", "mann_whitney"}

TestStatuses == {"success", "insufficient_data", "zero_variance"}

ZeroSpread(s) == \A i \in 1..Len(s) : s[i] = s[1]

BothNormal ==
    /\ check_normality(stdin[1])[1] = "approximately_normal"
    /\ check_normality(stdin[2])[1] = "approximately_normal"

\* C1: with the separator present, hypothesis_test always prints a result
\* line (welch|... or mann_whitney|...) carrying an explicit status and exits
\* with status 0, never the ERROR line with a non-zero exit status; this for
\* samples of any length, 0, 1 and 2 included, and for samples of zero spread.
C1_GuardedNeverError ==
    HypDone => (ResultLine /\ out[5] \in TestStatuses /\ exit = 0)

\* C1, the part the code keeps: when neither sample is empty the run prints
\* a result line with an explicit status and exits with status 0.
C1_NonEmptyNeverError ==
    (HypDone /\ stdin[1] # <<>> /\ stdin[2] # <<>>)
        => (ResultLine /\ out[5] \in TestStatuses /\ exit = 0)

\* C3: hypothesis_test prints a welch outcome if and only if check_normality
\* classifies both samples approximately_normal, a mann_whitney outcome in
\* every other combination, and the last two fields are the normality
\* statuses of sample 1 and sample 2 in that order.
C3_TestSelection ==
    HypDone =>
        /\ ResultLine
        /\ (out[1] = "welch") <=> BothNormal
        /\ (out[1] = "mann_whitney") <=> ~BothNormal
        /\ out[7] = check_normality(stdin[1])[1]
        /\ out[8] = check_normality(stdin[2])[1]

\* C3, the part the code keeps: the same selection whenever a result line
\* is printed, and one is printed whenever neither sample is empty.
C3_SelectionWhenNonEmpty ==
    (HypDone /\ stdin[1] # <<>> /\ stdin[2] # <<>>) =>
        /\ ResultLine
        /\ (out[1] = "welch") <=> BothNormal
        /\ (out[1] = "mann_whitney") <=> ~BothNormal
        /\ out[7] = check_normality(stdin[1])[1]
        /\ out[8] = check_normality(stdin[2])[1]

\* C10: the status field of a line printed by hypothesis_test is never
\* zero_variance: a welch line has status success, a mann_whitney line
\* insufficient_data or success, and two samples of zero spread with n >= 3
\* each are reported with status success.
C10_NeverZeroVariance ==
    (HypDone /\ ResultLine) =>
        /\ out[5] # "zero_variance"
        /\ out[1] = "welch" => out[5] = "success"
        /\ out[1] = "mann_whitney" => out[5] \in {"insufficient_data", "success"}
        /\ (/\ Len(stdin[1]) >= 3 /\ Len(stdin[2]) >= 3
            /\ ZeroSpread(stdin[1]) /\ ZeroSpread(stdin[2])) => out[5] = "success"

\* two samples of zero spread, one of them long enough for check_normality
\* to call it zero_variance, reported with status success
C10_Witness ==
    /\ HypDone /\ ResultLine
    /\ Len(stdin[1]) >= MinNormalN /\ Len(stdin[2]) >= 3
    /\ ZeroSpread(stdin[1]) /\ ZeroSpread(stdin[2])
    /\ out[7] = "zero_variance"
    /\ out[5] = "success"

(***************************************************************************)
(* Properties of the calculate_statistics command.                         *)
(***************************************************************************)
StatsDone == cmd = "calculate_statistics" /\ pc = "done"

\* x is the element at zero-based index k of the ascending order of values
OrderStatistic(values, k, x) ==
    /\ Cardinality({i \in 1..Len(values) : values[i] < x}) <= k
    /\ k < Cardinality({i \in 1..Len(values) : values[i] <= x})

\* C6: for every sample, min <= p90 <= p95 <= p99 <= max, each percentile
\* being the element of the ascending-sorted sample at zero-based index
\* floor(q * (n - 1)), an index within 0..n-1 when n >= 1.
C6_PercentilesOrdered ==
    StatsDone =>
        LET data == stdin[1]
            n == Len(data)
        IN  /\ Len(out) = 11
            /\ out[4].v <= out[6].v /\ out[6].v <= out[7].v
            /\ out[7].v <= out[8].v /\ out[8].v <= out[5].v
            /\ n >= 1 =>
                 \A f \in {<<6, 90>>, <<7, 95>>, <<8, 99>>} :
                    LET k == (f[2] * (n - 1)) \div 100
                    IN  /\ k \in 0..(n - 1)
                        /\ \E x \in {data[i] : i \in 1..n} :
                              out[f[1]].v = Fix(x) /\ OrderStatistic(data, k, x)

\* a sample whose percentiles are spread: min < p90 and p95 < p99
C6_Witness ==
    /\ StatsDone
    /\ Len(stdin[1]) > MinNormalN
    /\ out[4].v < out[6].v
    /\ out[7].v < out[8].v

\* C8: calculate_statistics prints each of its eleven numeric fields with 6
\* decimal places for every sample; on an empty input all eleven are
\* 0.000000, on a one-element input stdev and variance are 0.000000.
C8_AllFieldsSixDecimals ==
    StatsDone =>
        /\ Len(out) = 11
        /\ \A i \in 1..11 : out[i].places = 6
        /\ stdin[1] = <<>> => \A i \in 1..11 : out[i].v = 0
        /\ Len(stdin[1]) = 1 => (out[3].v = 0 /\ out[11].v = 0)

(***************************************************************************)
(* Properties of welchs_t_test.                                            *)
(***************************************************************************)
WelchReturned == call = "welchs_t_test" /\ pc # "start"

\* C2: welchs_t_test returns exactly three components {t_stat, df, status}
\* for every input: (0, 0, insufficient_data) when either sample has n < 2,
\* (0, 0, zero_variance) when the standard error is 0, (t_stat, df, success)
\* otherwise; so unpacking three values from it never fails.
C2_WelchReturnsThree ==
    WelchReturned =>
        /\ Len(ret) = 3
        /\ pc # "raised"
        /\ ret[3] \in TestStatuses
        /\ (Len(args[1]) < 2 \/ Len(args[2]) < 2)
              => ret = <<0, 0, "insufficient_data">>
        /\ ret[3] = "zero_variance" => (ret[1] = 0 /\ ret[2] = 0)

(***************************************************************************)
(* Properties of mann_whitney_u_test.                                      *)
(***************************************************************************)
MannWhitneyReturned == call = "mann_whitney_u_test" /\ pc # "start"

BothAtLeast3 == Len(args[1]) >= 3 /\ Len(args[2]) >= 3

\* the midrank of value x among the values of both samples: the mean of the
\* ranks 1.. that the elements equal to x occupy in ascending order
Midrank(x, v1, v2) ==
    LET all == v1 \o v2
        less == Cardinality({i \in 1..Len(all) : all[i] < x})
        equal == Cardinality({i \in 1..Len(all) : all[i] = x})
    IN  RDiv(Fix(2 * less + equal + 1), 2)

MidrankSum1(v1, v2) == SumSeq([i \in 1..Len(v1) |-> Midrank(v1[i], v1, v2)])

\* C4: for n1 >= 3 and n2 >= 3, with or without ties, u1 + u2 = n1 * n2
\* exactly, where u1 = r1_sum - n1(n1+1)/2 is computed from the midranks of
\* group 1, and the u_stat returned is min(u1, u2).
C4_USum ==
    (MannWhitneyReturned /\ BothAtLeast3) =>
        LET v1 == args[1]
            v2 == args[2]
            n1 == Len(v1)
            n2 == Len(v2)
            u1 == U1(v1, v2)
            u2 == U2(v1, v2)
        IN  /\ u1 + u2 = Fix(n1 * n2)
            /\ u1 = MidrankSum1(v1, v2) - RDiv(Fix(n1 * (n1 + 1)), 2)
            /\ ret[1] <= u1 /\ ret[1] <= u2 /\ ret[1] \in {u1, u2}

\* a value tied across the two groups, giving a fractional u1
C4_Witness ==
    /\ MannWhitneyReturned /\ BothAtLeast3
    /\ \E i \in 1..Len(args[1]), j \in 1..Len(args[2]) : args[1][i] = args[2][j]
    /\ U1(args[1], args[2]) % Scale # 0
    /\ U1(args[1], args[2]) > U2(args[1], args[2])

\* every value of one sample is strictly smaller than every value of the other
NoOverlap(v1, v2) ==
    \/ \A i \in 1..Len(v1), j \in 1..Len(v2) : v1[i] < v2[j]
    \/ \A i \in 1..Len(v1), j \in 1..Len(v2) : v1[i] > v2[j]

\* C5: when the samples do not overlap and n1 >= 3, n2 >= 3,
\* mann_whitney_u_test returns u_stat = 0 with status success, and the
\* rank-biserial effect size computed from it is 1, interpreted as large.
C5_NoOverlap ==
    (MannWhitneyReturned /\ BothAtLeast3 /\ NoOverlap(args[1], args[2])) =>
        /\ pc # "raised"
        /\ ret[1] = 0 /\ ret[3] = "success"
        /\ pc \in {"sized", "done"} => ret[4] = Fix(1)
        /\ pc = "done" => ret[5] = "large"

\* sample 1 wholly above sample 2, taken through to the interpretation
C5_Witness ==
    /\ MannWhitneyReturned /\ BothAtLeast3 /\ pc = "done"
    /\ \A i \in 1..Len(args[1]), j \in 1..Len(args[2]) : args[1][i] > args[2][j]
    /\ ret[5] = "large"

(***************************************************************************)
(* Properties of calculate_cohens_d.                                       *)
(***************************************************************************)
CohensReturned == call = "calculate_cohens_d" /\ pc # "start"

Sign(x) == IF x > 0 THEN 1 ELSE IF x < 0 THEN -1 ELSE 0

\* C7: for all m1, m2, s1_sq >= 0, s2_sq >= 0 and n1, n2 with n1 + n2 > 2,
\* calculate_cohens_d is positive when m1 > m2, negative when m1 < m2 and
\* zero when m1 = m2, also when both variances are 0.
C7_SignMatches ==
    (CohensReturned /\ args[5] + args[6] > 2) =>
        /\ pc = "done"
        /\ Sign(ret[1]) = Sign(args[1] - args[2])

\* C7 as amended: for n1 >= 1, n2 >= 1 with n1 + n2 > 2 the function
\* returns; where the pooled variance is positive, d has the sign of
\* m1 - m2; where it is 0, d is 0 whatever the means.
C7_SignWherePooledPositive ==
    (CohensReturned /\ args[5] >= 1 /\ args[6] >= 1 /\ args[5] + args[6] > 2) =>
        LET pooled == (args[5] - 1) * args[3] + (args[6] - 1) * args[4]
        IN  /\ pc = "done"
            /\ pooled > 0 => Sign(ret[1]) = Sign(args[1] - args[2])
            /\ pooled = 0 => ret[1] = 0

\* different means, both variances 0: the effect size is 0
C7_Witness ==
    /\ CohensReturned /\ pc = "done"
    /\ args[5] >= 1 /\ args[6] >= 1 /\ args[5] + args[6] > 2
    /\ args[1] > args[2] /\ args[3] = 0 /\ args[4] = 0
    /\ ret[1] = 0

(***************************************************************************)
(* Properties of the p-value approximations.                               *)
(***************************************************************************)
\* the p-value of the first threshold that x exceeds, else the last one
RECURSIVE Lookup(_, _, _)
Lookup(x, thresholds, pvalues) ==
    IF thresholds = <<>> THEN Head(pvalues)
    ELSE IF x > Head(thresholds) THEN Head(pvalues)
    ELSE Lookup(x, Tail(thresholds), Tail(pvalues))

ZTable(x) == Lookup(x, <<3291, 2576, 1960, 1645, 1280>>, <<1, 10, 50, 100, 200, 500>>)

TTableLarge(x) == Lookup(x, <<3500, 2576, 1960, 1645>>, <<1, 10, 50, 100, 200>>)

TTableSmall(x) == Lookup(x, <<3000, 2000>>, <<10, 50, 200>>)

\* C9: z_to_pvalue and t_to_pvalue are the fixed threshold tables, depend
\* only on the absolute value of the statistic, and are monotone
\* non-increasing in it (for a fixed df regime); z_to_pvalue(2.0) = 0.05,
\* z_to_pvalue(0.5) = 0.50, t_to_pvalue(2.0, 40) = 0.05.
C9_ThresholdTables ==
    /\ (call = "z_to_pvalue" /\ pc = "done") =>
          /\ ret[1] = ZTable(Abs(args[1]))
          /\ z_to_pvalue(Abs(args[1]) + 1) <= ret[1]
          /\ args[1] = 2000 => ret[1] = 50
          /\ args[1] = 500 => ret[1] = 500
    /\ (call = "t_to_pvalue" /\ pc = "done") =>
          /\ ret[1] = IF args[2] > Fix(30) THEN TTableLarge(Abs(args[1]))
                      ELSE TTableSmall(Abs(args[1]))
          /\ t_to_pvalue(Abs(args[1]) + 1, args[2]) <= ret[1]
          /\ (args[1] = 2000 /\ args[2] = Fix(40)) => ret[1] = 50

\* t_to_pvalue(-2.0, 40) = 0.05
C9_Witness ==
    /\ call = "t_to_pvalue" /\ pc = "done"
    /\ args = <<-2000, Fix(40)>>
    /\ ret = <<50>>

====
